---- MODULE Spec2Model ----
(***************************************************************************)
(* A model of model/modules/transformer.py: ScaledDotProductAttention,     *)
(* MultiHeadAttention, PositionwiseFeedForward, EncoderLayer and           *)
(* TransformerUnit.                                                        *)
(*                                                                         *)
(* Tensors are records [ok, shape, data]: data is the row-major flat       *)
(* storage of a contiguous tensor, and ok = FALSE stands for the           *)
(* RuntimeError the tensor library raises on a shape mismatch (it          *)
(* propagates through every later operation of the same forward call).     *)
(*                                                                         *)
(* Floating point is modelled in fixed point:                              *)
(*   - module inputs (query, key, value) and all weights are integers;     *)
(*   - scaled attention scores are kept in units of 1/ScoreDen;            *)
(*   - softmax weights are kept in units of 1/WeightFx;                    *)
(*   - layer-normalised activations are kept in units of 1/NormFx.         *)
(* Random dropout is a nondeterministic choice of the set of dropped       *)
(* elements.                                                               *)
(***************************************************************************)
EXTENDS Integers, Sequences, FiniteSets, TLC

VARIABLES
    sdpa,   \* a ScaledDotProductAttention instance and its forward call
    mha,    \* a MultiHeadAttention instance and its forward call
    ffn,    \* a PositionwiseFeedForward instance and its forward calls
    unit    \* a TransformerUnit instance and its forward calls

vars == <<sdpa, mha, ffn, unit>>

---------------------------------------------------------------------------
(* Bounds of the model.                                                    *)

MaxLen == 2         \* sequence lengths Lq, Lk range over 1..MaxLen
MaxSeed == 1        \* seeds of the (seeded) input tensors: 0..MaxSeed
MaxLayers == 2      \* n_layers ranges over 0..MaxLayers
MaxDropNumel == 2   \* elements of a tensor that a live dropout draws over

Batches == {1, 2}   \* batch sizes B
Heads == {1, 2}     \* n_head
Lens == 1..MaxLen
Seeds == 0..MaxSeed

---------------------------------------------------------------------------
(* Program constants and fixed-point resolutions.                          *)

MaskFillValue == -1000000000    \* masked_fill(mask, -1e9)
DefaultAttnDropout == 10        \* attn_dropout=0.1, in percent
ScoreDen == 2                   \* scores are stored as ScoreDen * score
WeightFx == 1000                \* softmax weights are stored as WeightFx * w
NormFx == 100                   \* normalised values are stored as NormFx * y

---------------------------------------------------------------------------
(* Tensors.                                                                *)

Err == [ok |-> FALSE, shape |-> <<>>, data |-> <<>>]

RECURSIVE Prod(_)
Prod(shape) == IF shape = <<>> THEN 1 ELSE Head(shape) * Prod(Tail(shape))

\* The sequence <<F(0), ..., F(n - 1)>>, built element by element.
RECURSIVE Tabulate(_, _, _)
Tabulate(n, F(_), acc) ==
    IF Len(acc) >= n THEN acc ELSE Tabulate(n, F, Append(acc, F(Len(acc))))

\* A contiguous tensor of the given shape whose element at flat offset n
\* (zero-based, row-major) is F(n).
Mk(shape, F(_)) ==
    [ok |-> TRUE, shape |-> shape, data |-> Tabulate(Prod(shape), F, <<>>)]

At3(t, i, j, k) == t.data[(i * t.shape[2] + j) * t.shape[3] + k + 1]

At4(t, i, j, k, l) ==
    t.data[((i * t.shape[2] + j) * t.shape[3] + k) * t.shape[4] + l + 1]

\* A tensor of shape <<s1, s2, s3>> with element (i, j, k) equal to F(i, j, k).
Mk3(s1, s2, s3, F(_, _, _)) ==
    Mk(<<s1, s2, s3>>,
       LAMBDA n : F(n \div (s2 * s3), (n \div s3) % s2, n % s3))

Mk4(s1, s2, s3, s4, F(_, _, _, _)) ==
    Mk(<<s1, s2, s3, s4>>,
       LAMBDA n : F(n \div (s2 * s3 * s4), (n \div (s3 * s4)) % s2,
                    (n \div s4) % s3, n % s4))

Is3(t) == t.ok /\ Len(t.shape) = 3

RECURSIVE SumTo(_, _)
SumTo(F(_), n) == IF n = 0 THEN 0 ELSE F(n - 1) + SumTo(F, n - 1)

RECURSIVE MaxTo(_, _)
MaxTo(F(_), n) ==
    IF n = 1 THEN F(0)
    ELSE LET m == MaxTo(F, n - 1) IN IF F(n - 1) > m THEN F(n - 1) ELSE m

Abs(x) == IF x < 0 THEN -x ELSE x

\* Division rounding to the nearest integer (d > 0).
RoundDiv(x, d) == (2 * x + d) \div (2 * d)

RECURSIVE ISqrtBetween(_, _, _)
ISqrtBetween(n, lo, hi) ==
    IF hi - lo <= 1 THEN lo
    ELSE LET mid == (lo + hi) \div 2
         IN IF mid * mid <= n THEN ISqrtBetween(n, mid, hi)
            ELSE ISqrtBetween(n, lo, mid)

\* floor(sqrt(n)) for 0 <= n < 2^31.
ISqrt(n) == ISqrtBetween(n, 0, 46341)

---------------------------------------------------------------------------
(* Tensor operations of the library, as far as the code uses them.         *)

\* "mask=None": no tensor at all.
None == [ok |-> TRUE, shape |-> <<>>, data |-> <<>>]

\* torch.bmm(a, b): (n, m, p) x (n, p, r) -> (n, m, r).
Bmm(a, b) ==
    IF ~(Is3(a) /\ Is3(b)) THEN Err
    ELSE IF a.shape[1] # b.shape[1] \/ a.shape[3] # b.shape[2] THEN Err
    ELSE Mk3(a.shape[1], a.shape[2], b.shape[3],
             LAMBDA n, i, j :
                 SumTo(LAMBDA c : At3(a, n, i, c) * At3(b, n, c, j), a.shape[3]))

\* t.transpose(1, 2) of a 3-d tensor.
Transpose12(t) ==
    IF ~Is3(t) THEN Err
    ELSE Mk3(t.shape[1], t.shape[3], t.shape[2], LAMBDA n, i, j : At3(t, n, j, i))

\* Broadcasting of two sizes of one dimension; -1 when they do not broadcast.
BroadcastDim(a, b) ==
    IF a = b THEN a ELSE IF a = 1 THEN b ELSE IF b = 1 THEN a ELSE -1

\* t.masked_fill(mask, value): mask and t are broadcast against each other;
\* the entries where mask is TRUE become value.
MaskedFill(t, mask, value) ==
    IF ~(Is3(t) /\ Is3(mask)) THEN Err
    ELSE LET s1 == BroadcastDim(t.shape[1], mask.shape[1])
             s2 == BroadcastDim(t.shape[2], mask.shape[2])
             s3 == BroadcastDim(t.shape[3], mask.shape[3])
             Ix(sz, i) == IF sz = 1 THEN 0 ELSE i
         IN IF s1 = -1 \/ s2 = -1 \/ s3 = -1 THEN Err
            ELSE Mk3(s1, s2, s3,
                     LAMBDA n, i, j :
                         IF At3(mask, Ix(mask.shape[1], n), Ix(mask.shape[2], i),
                                Ix(mask.shape[3], j))
                         THEN value
                         ELSE At3(t, Ix(t.shape[1], n), Ix(t.shape[2], i),
                                  Ix(t.shape[3], j)))

\* WeightFx * exp(-n / ScoreDen), rounded; 0 once exp underflows the resolution.
ExpTable == <<1000, 607, 368, 223, 135, 82, 50, 30, 18, 11, 7, 4, 2, 2, 1, 1>>

ExpFx(n) == IF n >= Len(ExpTable) THEN 0 ELSE ExpTable[n + 1]

\* nn.Softmax(dim=2) of a 3-d tensor of scores (units of 1/ScoreDen): the
\* result is in units of 1/WeightFx.
Softmax2(t) ==
    IF ~Is3(t) THEN Err
    ELSE LET len == t.shape[3]
             RowMax(n, i) == MaxTo(LAMBDA c : At3(t, n, i, c), len)
             E(n, i, j) == ExpFx(RowMax(n, i) - At3(t, n, i, j))
             RowSum(n, i) == SumTo(LAMBDA c : E(n, i, c), len)
         IN Mk3(t.shape[1], t.shape[2], len,
                LAMBDA n, i, j : RoundDiv(E(n, i, j) * WeightFx, RowSum(n, i)))

\* The outcomes of one nn.Dropout(p) draw over a tensor of numel elements:
\* the set of flat positions (from 1) that are zeroed.  Every element is
\* zeroed independently, so every subset is an outcome (0 < p < 100).
\* Dropout is the identity when p = 0 or the module is in eval mode.
DropChoices(numel, p, training) ==
    IF p = 0 \/ ~training THEN {{}} ELSE SUBSET (1..numel)

\* A live dropout (p > 0, training mode) draws over at most MaxDropNumel
\* elements in the calls of the model.
Drawable(numel, p, training) ==
    p = 0 \/ ~training \/ numel <= MaxDropNumel

\* nn.Dropout(p)(t) in the given mode with the drawn outcome `drop`: the
\* dropped elements become 0, the kept ones are scaled by 1 / (1 - p).
Dropout(t, p, training, drop) ==
    IF ~t.ok THEN Err
    ELSE IF p = 0 \/ ~training THEN t
    ELSE Mk(t.shape,
            LAMBDA n : IF (n + 1) \in drop THEN 0
                       ELSE (t.data[n + 1] * 100) \div (100 - p))

---------------------------------------------------------------------------
(* ScaledDotProductAttention.                                              *)

\* self.temperature = np.power(d_k, 0.5); d_k ranges over perfect squares.
Temperature(d_k) == ISqrt(d_k)

\* attn / self.temperature, in units of 1/ScoreDen.
DivTemperature(t, d_k) ==
    IF ~t.ok THEN Err
    ELSE Mk(t.shape, LAMBDA n : (ScoreDen * t.data[n + 1]) \div Temperature(d_k))

\* A variant that never fills: the mask is ignored.
ApplyMaskIgnored(attn, mask) == attn

\* if mask is not None: attn = attn.masked_fill(mask, -1e9)
ApplyMask(attn, mask) ==
    IF mask = None THEN attn ELSE MaskedFill(attn, mask, ScoreDen * MaskFillValue)

\* The scores that enter the softmax (forward, up to the masked_fill).
SdpaScores(q, k, mask, d_k) ==
    ApplyMask(DivTemperature(Bmm(q, Transpose12(k)), d_k), mask)

\* A variant normalising along the query axis (nn.Softmax(dim=1)).
SdpaSoftmaxDim1(scores) == Transpose12(Softmax2(Transpose12(scores)))

\* The softmax along the key axis (self.softmax = nn.Softmax(dim=2)).
SdpaSoftmax(scores) == Softmax2(scores)

\* attn after self.softmax, before self.dropout.
SdpaWeights(q, k, mask, d_k) == SdpaSoftmax(SdpaScores(q, k, mask, d_k))

\* forward(q, k, v, mask) with the dropout draw `drop`: <<output, attn>>.
SdpaForward(q, k, v, mask, d_k, p, training, drop) ==
    LET attn == Dropout(SdpaWeights(q, k, mask, d_k), p, training, drop)
    IN [output |-> Bmm(attn, v), attn |-> attn]

---------------------------------------------------------------------------
(* More library operations: view, permute, Linear, Conv1d, LayerNorm.      *)

\* t.view(shape) of a contiguous tensor; one entry of shape may be -1.
View(t, shape) ==
    IF ~t.ok THEN Err
    ELSE LET numel == Prod(t.shape)
             free == {d \in 1..Len(shape) : shape[d] = -1}
             rest == Prod([d \in 1..Len(shape) |->
                              IF shape[d] = -1 THEN 1 ELSE shape[d]])
         IN IF free = {}
            THEN IF rest = numel
                 THEN [ok |-> TRUE, shape |-> shape, data |-> t.data]
                 ELSE Err
            ELSE IF Cardinality(free) > 1 \/ numel = 0 \/ rest = 0 THEN Err
            ELSE IF numel % rest # 0 THEN Err
            ELSE [ok |-> TRUE,
                  shape |-> [d \in 1..Len(shape) |->
                                IF shape[d] = -1 THEN numel \div rest
                                ELSE shape[d]],
                  data |-> t.data]

\* t.permute(perm).contiguous() of a 4-d tensor: dimension d of the result
\* is dimension perm[d + 1] of t (dimensions counted from 0).
Permute4(t, perm) ==
    IF ~(t.ok /\ Len(t.shape) = 4) THEN Err
    ELSE LET Src(idx, m) == idx[CHOOSE d \in 1..4 : perm[d] = m]
         IN Mk4(t.shape[perm[1] + 1], t.shape[perm[2] + 1],
                t.shape[perm[3] + 1], t.shape[perm[4] + 1],
                LAMBDA a, b, c, d :
                    At4(t, Src(<<a, b, c, d>>, 0), Src(<<a, b, c, d>>, 1),
                        Src(<<a, b, c, d>>, 2), Src(<<a, b, c, d>>, 3)))

\* The fixed weights: parameter (o, i) of parameter tensor `tag` of module
\* instance `inst`, and its bias.
Weight(inst, tag, o, i) == ((inst * 7 + tag * 3 + o * 5 + i * 2 + o * i) % 3) - 1

Bias(inst, tag, o) == ((inst + tag + o) % 3) - 1

\* nn.Linear(in_f, out_f)(x) on a (B, L, in_f) tensor; fx is the unit of x
\* (the bias is an integer in natural units).
Linear(x, inst, tag, in_f, out_f, fx) ==
    IF ~Is3(x) THEN Err
    ELSE IF x.shape[3] # in_f THEN Err
    ELSE Mk3(x.shape[1], x.shape[2], out_f,
             LAMBDA b, l, o :
                 SumTo(LAMBDA c : At3(x, b, l, c) * Weight(inst, tag, o, c), in_f)
                     + Bias(inst, tag, o) * fx)

\* nn.Conv1d(c_in, c_out, 1)(x) on a (B, c_in, L) tensor: a kernel of size 1.
Conv1dK1(x, inst, tag, c_in, c_out, fx) ==
    IF ~Is3(x) THEN Err
    ELSE IF x.shape[2] # c_in THEN Err
    ELSE Mk3(x.shape[1], c_out, x.shape[3],
             LAMBDA b, o, l :
                 SumTo(LAMBDA c : At3(x, b, c, l) * Weight(inst, tag, o, c), c_in)
                     + Bias(inst, tag, o) * fx)

\* F.relu
Relu(t) ==
    IF ~t.ok THEN Err
    ELSE Mk(t.shape, LAMBDA n : IF t.data[n + 1] < 0 THEN 0 ELSE t.data[n + 1])

\* a + b * scale for two tensors of one shape (the residual add; scale brings
\* the residual to the unit of a).
AddScaled(a, b, scale) ==
    IF ~(a.ok /\ b.ok) THEN Err
    ELSE IF a.shape # b.shape THEN Err
    ELSE Mk(a.shape, LAMBDA n : a.data[n + 1] + b.data[n + 1] * scale)

LayerNormEpsInv == 100000   \* nn.LayerNorm(d): eps = 1e-5
FinalNormEpsInv == 1000000  \* nn.LayerNorm(d_model, eps=1e-6)

\* Division rounding toward zero.
TruncDiv(x, d) == IF x < 0 THEN -((-x) \div d) ELSE x \div d

\* nn.LayerNorm(d, eps)(t) over the last axis of a 3-d tensor in units of
\* 1/fx, weight 1 and bias 0: (x - mean) / sqrt(var + eps), in units of
\* 1/NormFx.  With cen = d * (x - mean) this is cen / sqrt(sum(cen^2) / d +
\* eps * d^2 * fx^2); cen is scaled down by g to keep the squares small.
\* The result is exact to 1/NormFx, except on a row whose entries differ by
\* less than 1/fx, which the stored values cannot tell from a constant row.
LayerNorm(t, d, fx, epsInv) ==
    IF ~Is3(t) THEN Err
    ELSE IF t.shape[3] # d THEN Err
    ELSE LET Sum(b, l) == SumTo(LAMBDA c : At3(t, b, l, c), d)
             Cen(b, l, c) == d * At3(t, b, l, c) - Sum(b, l)
             G(b, l) == (MaxTo(LAMBDA c : Abs(Cen(b, l, c)), d) \div 200) + 1
             S(b, l, c) == TruncDiv(Cen(b, l, c), G(b, l))
             Sq(b, l) == SumTo(LAMBDA c : S(b, l, c) * S(b, l, c), d)
             EpsTerm(b, l) ==
                 ((d * d * fx * fx) \div (epsInv \div 10000)) \div (G(b, l) * G(b, l))
             R(b, l) == ISqrt((Sq(b, l) * 10000) \div d + EpsTerm(b, l))
         IN Mk3(t.shape[1], t.shape[2], d,
                LAMBDA b, l, c :
                    IF R(b, l) = 0 THEN 0
                    ELSE RoundDiv(S(b, l, c) * NormFx * 100, R(b, l)))

---------------------------------------------------------------------------
(* MultiHeadAttention.                                                     *)

TagQs == 1
TagKs == 2
TagVs == 3
TagFc == 4
TagW1 == 5
TagW2 == 6

\* x.view(sz_b, len, n_head, d) without the permute: heads stay interleaved.
SplitHeadsNoPermute(x, sz_b, len, n_head, d) ==
    View(View(x, <<sz_b, len, n_head, d>>), <<-1, len, d>>)

\* x.view(sz_b, len, n_head, d).permute(2, 0, 1, 3).contiguous()
\*  .view(-1, len, d): the heads become rows of the batch.
SplitHeads(x, sz_b, len, n_head, d) ==
    View(Permute4(View(x, <<sz_b, len, n_head, d>>), <<2, 0, 1, 3>>),
         <<-1, len, d>>)

\* output.view(n_head, sz_b, len_q, d_v).permute(1, 2, 0, 3).contiguous()
\*  .view(sz_b, len_q, -1)
MergeHeads(output, sz_b, len_q, n_head, d_v) ==
    View(Permute4(View(output, <<n_head, sz_b, len_q, d_v>>), <<1, 2, 0, 3>>),
         <<sz_b, len_q, -1>>)

\* The size of dimension d (from 0) of t, as q.size() unpacks it; 0 for a
\* tensor that is not 3-d.
Size(t, d) == IF Is3(t) THEN t.shape[d + 1] ELSE 0

\* forward, lines 69-79: the projections and the head split.  c is the
\* module's configuration [inst, n_head, d_model, d_k, d_v, dropout].
MhaProject(c, q, k, v) ==
    LET sz_b == Size(v, 0)      \* sz_b is rebound by k.size() and v.size()
        pq == Linear(q, c.inst, TagQs, c.d_model, c.n_head * c.d_k, 1)
        pk == Linear(k, c.inst, TagKs, c.d_model, c.n_head * c.d_k, 1)
        pv == Linear(v, c.inst, TagVs, c.d_model, c.n_head * c.d_v, 1)
    IN [sz_b |-> sz_b, len_q |-> Size(q, 1),
        pq |-> pq, pk |-> pk, pv |-> pv,
        q |-> SplitHeads(pq, sz_b, Size(q, 1), c.n_head, c.d_k),
        k |-> SplitHeads(pk, sz_b, Size(k, 1), c.n_head, c.d_k),
        v |-> SplitHeads(pv, sz_b, Size(v, 1), c.n_head, c.d_v)]

\* self.attention = ScaledDotProductAttention(d_k): attn_dropout keeps its
\* default, whatever dropout the module was given.
MhaAttnDropout(c) == DefaultAttnDropout

\* forward, line 80: output, attn = self.attention(q, k, v, mask=mask)
MhaAttend(c, h, mask, training, drop) ==
    SdpaForward(h.q, h.k, h.v, mask, c.d_k, MhaAttnDropout(c), training, drop)

\* forward, lines 83-84, on the recombined heads (units of 1/WeightFx):
\* fc, dropout, residual add and layer norm.
MhaOutput(c, merged, residual, training, drop) ==
    LayerNorm(
        AddScaled(Dropout(Linear(merged, c.inst, TagFc, c.n_head * c.d_v,
                                 c.d_model, WeightFx),
                          c.dropout, training, drop),
                  residual, WeightFx),
        c.d_model, WeightFx, LayerNormEpsInv)

\* The number of elements the attention dropout draws over.
MhaAttnNumel(c, q, k, v) ==
    c.n_head * Size(v, 0) * Size(q, 1) * Size(k, 1)

\* forward, lines 81-85, on the result a of the attention.
MhaFinish(c, h, a, residual, training, drop) ==
    [output |-> MhaOutput(c, MergeHeads(a.output, h.sz_b, h.len_q, c.n_head, c.d_v),
                          residual, training, drop),
     attn |-> a.attn]

\* F(v), with v evaluated once.
With(v, F(_)) == CHOOSE y \in {F(x) : x \in {v}} : TRUE

\* forward(q, k, v, mask) with the two dropout draws: <<output, attn>>.
MhaForward(c, q, k, v, mask, training, drop1, drop2) ==
    With(MhaProject(c, q, k, v),
         LAMBDA h : With(MhaAttend(c, h, mask, training, drop1),
                         LAMBDA a : MhaFinish(c, h, a, q, training, drop2)))

---------------------------------------------------------------------------
(* PositionwiseFeedForward.                                                *)

\* self.layer_norm = nn.LayerNorm(d_in) normalising over the sequence and
\* feature axes together instead of the feature axis alone.
FfnLayerNormOverSeq(t, d_in) ==
    IF ~Is3(t) THEN Err
    ELSE View(LayerNorm(View(t, <<t.shape[1], 1, t.shape[2] * t.shape[3]>>),
                        t.shape[2] * t.shape[3], NormFx, LayerNormEpsInv),
              t.shape)

\* self.layer_norm = nn.LayerNorm(d_in)
FfnLayerNorm(t, d_in) == LayerNorm(t, d_in, NormFx, LayerNormEpsInv)

\* A forward that leaves the convolution's output as (B, d_in, L).
FfnTransposeBackMissing(x) == x

\* x = x.transpose(1, 2) after the convolutions: back to (B, L, d_in).
FfnTransposeBack(x) == Transpose12(x)

\* forward(x) with the dropout draw; c is [inst, d_in, d_hid, dropout] and x
\* is in units of 1/NormFx.
FfnForward(c, x, training, drop) ==
    LET residual == x
        x1 == Transpose12(x)
        x2 == Conv1dK1(Relu(Conv1dK1(x1, c.inst, TagW1, c.d_in, c.d_hid, NormFx)),
                       c.inst, TagW2, c.d_hid, c.d_in, NormFx)
        x3 == FfnTransposeBack(x2)
        x4 == Dropout(x3, c.dropout, training, drop)
    IN FfnLayerNorm(AddScaled(x4, residual, 1), c.d_in)

---------------------------------------------------------------------------
(* EncoderLayer and TransformerUnit.                                       *)

\* The sub-module configurations of EncoderLayer number inst of a unit with
\* configuration c (EncoderLayer.__init__).
SlfAttnCfg(c, inst) ==
    [inst |-> inst, n_head |-> c.n_head, d_model |-> c.d_model,
     d_k |-> c.d_k, d_v |-> c.d_v, dropout |-> c.dropout]

PosFfnCfg(c, inst) ==
    [inst |-> inst, d_in |-> c.d_model, d_hid |-> c.d_inner,
     dropout |-> c.dropout]

\* EncoderLayer.forward(query, key, value, slf_attn_mask) of layer inst with
\* the dropout draws d = [attn, mha, ffn]: <<enc_output, enc_slf_attn>>.
EncoderLayerForward(c, inst, query, key, value, mask, training, d) ==
    With(MhaForward(SlfAttnCfg(c, inst), query, key, value, mask,
                    training, d.attn, d.mha),
         LAMBDA a : [enc_output |-> FfnForward(PosFfnCfg(c, inst), a.output,
                                               training, d.ffn),
                     enc_slf_attn |-> a.attn])

\* self.layer_norm = nn.LayerNorm(d_model, eps=1e-6), applied on return.
FinalNorm(c, t) == LayerNorm(t, c.d_model, NormFx, FinalNormEpsInv)

\* The (query, key, value) a layer is invoked with when the loop threads the
\* previous layer's output forward.
LayerInputThreaded(args, bound, enc_output) ==
    IF bound
    THEN [query |-> enc_output, key |-> enc_output, value |-> enc_output,
          mask |-> args.src_mask]
    ELSE [query |-> args.query, key |-> args.key, value |-> args.value,
          mask |-> args.src_mask]

\* enc_layer(query, key, value, slf_attn_mask=src_mask): every iteration
\* passes forward's own arguments.
LayerInput(args, bound, enc_output) ==
    [query |-> args.query, key |-> args.key, value |-> args.value,
     mask |-> args.src_mask]

\* A forward that binds enc_output to the query before the loop.
EncOutputAtEntryBound(args) == [bound |-> TRUE, value |-> args.query]

\* forward binds enc_output only inside the loop.
EncOutputAtEntry(args) == [bound |-> FALSE, value |-> None]

\* return enc_output
ReturnValue(args, enc_output, enc_slf_attn) ==
    [output |-> enc_output, has_attn |-> FALSE, attn |-> None]

---------------------------------------------------------------------------
(* Inputs: seeded tensors and attention masks.                             *)

\* A magnitude whose square exceeds 1e9: a query/key pair of this size has a
\* raw score below the mask fill value.
Big == ISqrt(-MaskFillValue) + 1

\* A tensor of the given shape filled from vals by a fixed seeded pattern.
Seeded(shape, seed, vals) ==
    Mk(shape,
       LAMBDA n : vals[((n * (seed + 2) + (n \div 2) + seed) % Len(vals)) + 1])

QVals(d_k) == IF d_k = 1 THEN <<Big, 1, -2, 0>> ELSE <<1, 0, -2, 3>>
KVals(d_k) == IF d_k = 1 THEN <<-Big, 2, -1, 1>> ELSE <<2, -1, 0, 1>>
VVals == <<1, -1, 2, 0, 3>>
XVals == <<1, 0, -1, 2>>

MaskPatterns == {"causal", "all", "row0", "key0", "pad", "clear"}

\* mask[b, i, j] of a pattern: TRUE marks a key position to suppress.
MaskBit(pattern, b, i, j, lk) ==
    CASE pattern = "causal" -> j > i
      [] pattern = "all" -> TRUE
      [] pattern = "row0" -> i = 0
      [] pattern = "key0" -> j = 0
      [] pattern = "pad" -> j >= lk - b
      [] OTHER -> FALSE

MaskOf(pattern, mb, lq, lk) ==
    Mk3(mb, lq, lk, LAMBDA b, i, j : MaskBit(pattern, b, i, j, lk))

\* The masks a caller may pass beside a (rows, lq, .) query: none, or a
\* boolean tensor of mb rows for each pattern and each mb offered.
MasksFor(patterns, mbs, lq, lk) ==
    {None} \cup {MaskOf(pt, mb, lq, lk) : pt \in patterns, mb \in mbs}

Unused == [pc |-> "unused"]

---------------------------------------------------------------------------
(* A ScaledDotProductAttention instance called directly.                   *)

DKs == {1, 4}
Dropouts == {0, 10}     \* dropout probabilities, in percent

\* __init__(d_k, attn_dropout): a new module is in training mode.
SdpaNew(d_k, p) ==
    [pc |-> "idle", d_k |-> d_k, p |-> p, training |-> TRUE,
     q |-> None, k |-> None, v |-> None, mask |-> None,
     attn |-> None, output |-> None]

InitAttn ==
    /\ sdpa \in {SdpaNew(d_k, p) : d_k \in DKs, p \in Dropouts}
    /\ mha = Unused /\ ffn = Unused /\ unit = Unused

\* nn.Module.eval(): dropout becomes the identity.
SdpaEval ==
    /\ sdpa.pc = "idle" /\ sdpa.training
    /\ sdpa' = [sdpa EXCEPT !.training = FALSE]
    /\ UNCHANGED <<mha, ffn, unit>>

\* forward(q, k, v, mask) is entered and runs up to the softmax.
SdpaCall ==
    /\ sdpa.pc = "idle"
    /\ \E n \in Batches, lq \in Lens, lk \in Lens, seed \in Seeds :
         /\ Drawable(n * lq * lk, sdpa.p, sdpa.training)
         /\ \E mask \in MasksFor(MaskPatterns, {1, n}, lq, lk) :
           LET q == Seeded(<<n, lq, sdpa.d_k>>, seed, QVals(sdpa.d_k))
               k == Seeded(<<n, lk, sdpa.d_k>>, seed + 1, KVals(sdpa.d_k))
               v == Seeded(<<n, lk, sdpa.d_k>>, seed + 2, VVals)
           IN sdpa' = [sdpa EXCEPT !.pc = "softmax", !.q = q, !.k = k, !.v = v,
                                   !.mask = mask,
                                   !.attn = SdpaWeights(q, k, mask, sdpa.d_k),
                                   !.output = None]
    /\ UNCHANGED <<mha, ffn, unit>>

\* forward continues: dropout on the weights, the product with v, return.
SdpaReturn ==
    /\ sdpa.pc = "softmax"
    /\ \E drop \in DropChoices(Prod(sdpa.attn.shape), sdpa.p, sdpa.training) :
         LET r == SdpaForward(sdpa.q, sdpa.k, sdpa.v, sdpa.mask, sdpa.d_k,
                              sdpa.p, sdpa.training, drop)
         IN sdpa' = [sdpa EXCEPT !.pc = "returned", !.attn = r.attn,
                                 !.output = r.output]
    /\ UNCHANGED <<mha, ffn, unit>>

NextAttn == SdpaEval \/ SdpaCall \/ SdpaReturn

SpecAttn == InitAttn /\ [][NextAttn]_vars

---------------------------------------------------------------------------
(* A MultiHeadAttention instance called directly.                          *)

\* The widths of modules built: d_model, d_k, d_v.
MhaWidths ==
    {[d_model |-> 2, d_k |-> 1, d_v |-> 2], [d_model |-> 2, d_k |-> 4, d_v |-> 1]}

MhaMaskPatterns == {"pad"}

NoHeads == [sz_b |-> 0, len_q |-> 0, pq |-> None, pk |-> None, pv |-> None,
            q |-> None, k |-> None, v |-> None]
NoAttn == [output |-> None, attn |-> None]

\* __init__(n_head, d_model, d_k, d_v, dropout); a new module is in training
\* mode.
MhaNew(n_head, w, dropout) ==
    [pc |-> "idle",
     cfg |-> [inst |-> 1, n_head |-> n_head, d_model |-> w.d_model,
              d_k |-> w.d_k, d_v |-> w.d_v, dropout |-> dropout],
     training |-> TRUE,
     q |-> None, k |-> None, v |-> None, mask |-> None,
     h |-> NoHeads, a |-> NoAttn, merged |-> None, output |-> None]

InitMha ==
    /\ mha \in {MhaNew(n_head, w, dropout) :
                    n_head \in Heads, w \in MhaWidths, dropout \in Dropouts}
    /\ sdpa = Unused /\ ffn = Unused /\ unit = Unused

\* nn.Module.eval()
MhaEval ==
    /\ mha.pc = "idle" /\ mha.training
    /\ mha' = [mha EXCEPT !.training = FALSE]
    /\ UNCHANGED <<sdpa, ffn, unit>>

\* forward(q, k, v, mask) is entered and runs lines 69-79: the projections
\* and the head split.  A mask has B rows, or n_head * B rows when the caller
\* has repeated it per head.  An error of a tensor operation ends the call.
MhaCall ==
    /\ mha.pc = "idle"
    /\ \E b \in Batches, lq \in Lens, lk \in Lens, seed \in Seeds :
         /\ Drawable(mha.cfg.n_head * b * lq * lk, MhaAttnDropout(mha.cfg),
                     mha.training)
         /\ Drawable(b * lq * mha.cfg.d_model, mha.cfg.dropout, mha.training)
         /\ \E mask \in MasksFor(MhaMaskPatterns, {b, mha.cfg.n_head * b}, lq, lk) :
              LET q == Seeded(<<b, lq, mha.cfg.d_model>>, seed, XVals)
                  k == Seeded(<<b, lk, mha.cfg.d_model>>, seed + 1, XVals)
                  v == Seeded(<<b, lk, mha.cfg.d_model>>, seed + 2, XVals)
              IN \E h \in {MhaProject(mha.cfg, q, k, v)} :
                   mha' = [mha EXCEPT
                              !.pc = IF h.q.ok /\ h.k.ok /\ h.v.ok
                                     THEN "split" ELSE "raised",
                              !.q = q, !.k = k, !.v = v, !.mask = mask, !.h = h,
                              !.a = NoAttn, !.merged = None, !.output = None]
    /\ UNCHANGED <<sdpa, ffn, unit>>

\* forward, line 80: the attention over the head-expanded batch.  When a
\* tensor operation of the attention raises, forward ends there.
MhaAttention ==
    /\ mha.pc = "split"
    /\ \E d \in DropChoices(MhaAttnNumel(mha.cfg, mha.q, mha.k, mha.v),
                            MhaAttnDropout(mha.cfg), mha.training) :
         \E a \in {MhaAttend(mha.cfg, mha.h, mha.mask, mha.training, d)} :
            IF a.output.ok /\ a.attn.ok
            THEN mha' = [mha EXCEPT !.pc = "attended", !.a = a]
            ELSE mha' = [mha EXCEPT !.pc = "raised"]
    /\ UNCHANGED <<sdpa, ffn, unit>>

\* forward, lines 81-85: the heads are recombined, then fc, dropout, the
\* residual add, the layer norm and the return.
MhaReturn ==
    /\ mha.pc = "attended"
    /\ \E d \in DropChoices(Prod(mha.q.shape), mha.cfg.dropout, mha.training) :
         \E out \in {MhaFinish(mha.cfg, mha.h, mha.a, mha.q,
                                mha.training, d).output} :
            IF out.ok
            THEN mha' = [mha EXCEPT !.pc = "returned",
                                    !.merged = MergeHeads(mha.a.output, mha.h.sz_b,
                                                          mha.h.len_q,
                                                          mha.cfg.n_head,
                                                          mha.cfg.d_v),
                                    !.output = out]
            ELSE mha' = [mha EXCEPT !.pc = "raised"]
    /\ UNCHANGED <<sdpa, ffn, unit>>

NextMha == MhaEval \/ MhaCall \/ MhaAttention \/ MhaReturn

SpecMha == InitMha /\ [][NextMha]_vars

---------------------------------------------------------------------------
(* A PositionwiseFeedForward instance called directly, twice.              *)

\* The widths of modules built: d_in, d_hid.
FfnWidths == {[d_in |-> 2, d_hid |-> 3], [d_in |-> 3, d_hid |-> 2]}

\* Input values, in units of 1/NormFx.
FVals == <<100, -50, 0, 150, -120>>

\* __init__(d_in, d_hid, dropout); a new module is in training mode.
FfnNew(w, dropout) ==
    [pc |-> "idle",
     cfg |-> [inst |-> 1, d_in |-> w.d_in, d_hid |-> w.d_hid, dropout |-> dropout],
     training |-> TRUE,
     x |-> None, y |-> None, x2 |-> None, y2 |-> None]

InitFfn ==
    /\ ffn \in {FfnNew(w, dropout) : w \in FfnWidths, dropout \in Dropouts}
    /\ sdpa = Unused /\ mha = Unused /\ unit = Unused

\* nn.Module.eval()
FfnEval ==
    /\ ffn.pc = "idle" /\ ffn.training
    /\ ffn' = [ffn EXCEPT !.training = FALSE]
    /\ UNCHANGED <<sdpa, mha, unit>>

\* forward(x) on a seeded input.
FfnCall ==
    /\ ffn.pc = "idle"
    /\ \E b \in Batches, l \in Lens, seed \in Seeds :
         /\ Drawable(b * l * ffn.cfg.d_in, ffn.cfg.dropout, ffn.training)
         /\ LET x == Seeded(<<b, l, ffn.cfg.d_in>>, seed, FVals)
            IN \E d \in DropChoices(Prod(x.shape), ffn.cfg.dropout, ffn.training) :
                 ffn' = [ffn EXCEPT !.pc = "returned", !.x = x,
                                    !.y = FfnForward(ffn.cfg, x, ffn.training, d)]
    /\ UNCHANGED <<sdpa, mha, unit>>

\* forward(x2) on an input of the same shape that keeps x at one position
\* (b0, l0) and is filled afresh everywhere else.
FfnCallOther ==
    /\ ffn.pc = "returned"
    /\ \E b0 \in 0..(ffn.x.shape[1] - 1), l0 \in 0..(ffn.x.shape[2] - 1),
          seed \in Seeds :
         LET other == Seeded(ffn.x.shape, seed + 3, FVals)
             x2 == Mk3(ffn.x.shape[1], ffn.x.shape[2], ffn.x.shape[3],
                       LAMBDA b, l, c : IF b = b0 /\ l = l0
                                        THEN At3(ffn.x, b, l, c)
                                        ELSE At3(other, b, l, c))
         IN \E d \in DropChoices(Prod(x2.shape), ffn.cfg.dropout, ffn.training) :
              ffn' = [ffn EXCEPT !.pc = "compared", !.x2 = x2,
                                 !.y2 = FfnForward(ffn.cfg, x2, ffn.training, d)]
    /\ UNCHANGED <<sdpa, mha, unit>>

NextFfn == FfnEval \/ FfnCall \/ FfnCallOther

SpecFfn == InitFfn /\ [][NextFfn]_vars

---------------------------------------------------------------------------
(* A TransformerUnit instance: construction and forward calls.             *)

\* The shapes of modules built: n_head, d_k, d_v, d_model, d_inner.
UnitShapes ==
    {[n_head |-> 1, d_k |-> 1, d_v |-> 1, d_model |-> 4, d_inner |-> 2],
     [n_head |-> 2, d_k |-> 4, d_v |-> 1, d_model |-> 4, d_inner |-> 3]}

UnitMaskPatterns == {"pad"}

\* The sequence lengths of the calls: the shortest and the longest.
UnitLens == {1, MaxLen}

NoDraws == [attn |-> {}, mha |-> {}, ffn |-> {}]
NoReturn == [output |-> None, has_attn |-> FALSE, attn |-> None]
NoArgs == [query |-> None, key |-> None, value |-> None, src_mask |-> None,
           return_attns |-> FALSE]

InitUnit ==
    /\ unit = [pc |-> "new"]
    /\ sdpa = Unused /\ mha = Unused /\ ffn = Unused

\* TransformerUnit.__init__: the layer stack holds n_layers EncoderLayers,
\* each with parameters of its own; a new module is in training mode.
UnitConstruct(dropouts) ==
    /\ unit.pc = "new"
    /\ \E n_layers \in 0..MaxLayers, sh \in UnitShapes, dropout \in dropouts :
         unit' = [pc |-> "idle",
                  cfg |-> [n_layers |-> n_layers, n_head |-> sh.n_head,
                           d_k |-> sh.d_k, d_v |-> sh.d_v,
                           d_model |-> sh.d_model, d_inner |-> sh.d_inner,
                           dropout |-> dropout],
                  layer_stack |-> [i \in 1..n_layers |-> i],
                  training |-> TRUE,
                  args |-> NoArgs, li |-> 0, invoked |-> <<>>,
                  layer_in |-> LayerInput(NoArgs, FALSE, None),
                  enc_output |-> EncOutputAtEntry(NoArgs),
                  enc_slf_attn |-> None, slf_out |-> None, draws |-> NoDraws,
                  ret |-> NoReturn, error |-> "", calls |-> 0,
                  prev |-> NoReturn]
    /\ UNCHANGED <<sdpa, mha, ffn>>

\* nn.Module.eval() before the first call.
UnitEval ==
    /\ unit.pc = "idle" /\ unit.training
    /\ unit' = [unit EXCEPT !.training = FALSE]
    /\ UNCHANGED <<sdpa, mha, ffn>>

\* forward(query, key, value, src_mask, return_attns) is entered.
UnitCall ==
    /\ unit.pc = "idle"
    /\ \E b \in Batches, lq \in UnitLens, lk \in UnitLens, return_attns \in BOOLEAN :
         /\ Drawable(unit.cfg.n_head * b * lq * lk, DefaultAttnDropout,
                     unit.training)
         /\ Drawable(b * lq * unit.cfg.d_model, unit.cfg.dropout, unit.training)
         /\ \E mask \in MasksFor(UnitMaskPatterns, {b}, lq, lk) :
           LET args == [query |-> Seeded(<<b, lq, unit.cfg.d_model>>, 0, XVals),
                        key |-> Seeded(<<b, lk, unit.cfg.d_model>>, 1, XVals),
                        value |-> Seeded(<<b, lk, unit.cfg.d_model>>, 2, XVals),
                        src_mask |-> mask, return_attns |-> return_attns]
           IN unit' = [unit EXCEPT !.pc = "loop", !.args = args, !.li = 0,
                                   !.invoked = <<>>,
                                   !.enc_output = EncOutputAtEntry(args),
                                   !.enc_slf_attn = None, !.slf_out = None,
                                   !.draws = NoDraws,
                                   !.ret = NoReturn, !.error = "",
                                   !.calls = 1, !.prev = NoReturn]
    /\ UNCHANGED <<sdpa, mha, ffn>>

\* One iteration of "for enc_layer in self.layer_stack" begins: the next
\* layer is invoked and runs its self.slf_attn (EncoderLayer.forward, lines
\* 115-116) with the two dropout draws of the attention.  A RuntimeError of
\* a tensor operation leaves forward at once.
UnitSlfAttn ==
    /\ unit.pc = "loop" /\ unit.li < Len(unit.layer_stack)
    /\ LET c == SlfAttnCfg(unit.cfg, unit.layer_stack[unit.li + 1])
           in == LayerInput(unit.args, unit.enc_output.bound, unit.enc_output.value)
       IN \E d1 \in DropChoices(MhaAttnNumel(c, in.query, in.key, in.value),
                                MhaAttnDropout(c), unit.training),
             d2 \in DropChoices(Prod(in.query.shape), c.dropout, unit.training) :
            \E r \in {MhaForward(c, in.query, in.key, in.value, in.mask,
                                 unit.training, d1, d2)} :
               IF r.output.ok /\ r.attn.ok
               THEN unit' = [unit EXCEPT
                                !.pc = "ffn", !.layer_in = in,
                                !.invoked = Append(unit.invoked, c.inst),
                                !.draws = [attn |-> d1, mha |-> d2, ffn |-> {}],
                                !.slf_out = r.output,
                                !.enc_slf_attn = r.attn]
               ELSE unit' = [unit EXCEPT
                                !.pc = "raised", !.error = "RuntimeError",
                                !.layer_in = in,
                                !.invoked = Append(unit.invoked, c.inst),
                                !.draws = NoDraws]
    /\ UNCHANGED <<sdpa, mha, ffn>>

\* The layer continues with self.pos_ffn (EncoderLayer.forward, line 117) and
\* returns: the loop binds enc_output and enc_slf_attn.
UnitPosFfn ==
    /\ unit.pc = "ffn"
    /\ LET c == PosFfnCfg(unit.cfg, unit.layer_stack[unit.li + 1])
       IN \E d3 \in DropChoices(Prod(unit.slf_out.shape), c.dropout, unit.training) :
            \E y \in {FfnForward(c, unit.slf_out, unit.training, d3)} :
               IF y.ok
               THEN unit' = [unit EXCEPT
                                !.pc = "loop", !.li = unit.li + 1,
                                !.draws = [unit.draws EXCEPT !.ffn = d3],
                                !.enc_output = [bound |-> TRUE, value |-> y]]
               ELSE unit' = [unit EXCEPT !.pc = "raised",
                                         !.error = "RuntimeError"]
    /\ UNCHANGED <<sdpa, mha, ffn>>

\* The loop is over and enc_output is bound: the final layer norm, return.
UnitReturn ==
    /\ unit.pc = "loop" /\ unit.li = Len(unit.layer_stack)
    /\ unit.enc_output.bound
    /\ \E y \in {FinalNorm(unit.cfg, unit.enc_output.value)} :
         IF y.ok
         THEN unit' = [unit EXCEPT
                          !.pc = "done",
                          !.ret = ReturnValue(unit.args, y, unit.enc_slf_attn)]
         ELSE unit' = [unit EXCEPT !.pc = "raised", !.error = "RuntimeError"]
    /\ UNCHANGED <<sdpa, mha, ffn>>

\* The loop is over and enc_output was never bound: self.layer_norm(enc_output)
\* raises UnboundLocalError and forward returns nothing.
UnitRaise ==
    /\ unit.pc = "loop" /\ unit.li = Len(unit.layer_stack)
    /\ ~unit.enc_output.bound
    /\ unit' = [unit EXCEPT !.pc = "raised", !.error = "UnboundLocalError"]
    /\ UNCHANGED <<sdpa, mha, ffn>>

\* forward is called once more with the same arguments; the previous return
\* value is kept for comparison.
UnitCallAgain ==
    /\ unit.pc = "done" /\ unit.calls = 1
    /\ unit' = [unit EXCEPT !.pc = "loop", !.li = 0, !.invoked = <<>>,
                            !.enc_output = EncOutputAtEntry(unit.args),
                            !.enc_slf_attn = None, !.slf_out = None,
                            !.draws = NoDraws,
                            !.ret = NoReturn, !.calls = 2, !.prev = unit.ret]
    /\ UNCHANGED <<sdpa, mha, ffn>>

Next ==
    \/ UnitConstruct(Dropouts)
    \/ UnitEval
    \/ UnitCall
    \/ UnitSlfAttn
    \/ UnitPosFfn
    \/ UnitReturn
    \/ UnitRaise

Spec == InitUnit /\ [][Next]_vars

\* Units built with dropout probability 0 and called twice on one input.
NextTwice ==
    \/ UnitConstruct({0})
    \/ UnitEval
    \/ UnitCall
    \/ UnitSlfAttn
    \/ UnitPosFfn
    \/ UnitReturn
    \/ UnitRaise
    \/ UnitCallAgain

SpecTwice == InitUnit /\ [][NextTwice]_vars

---------------------------------------------------------------------------
(* Properties of ScaledDotProductAttention (checked under SpecAttn).       *)

\* The mask entry that governs attention entry (n, i, j): a mask of one row
\* is broadcast over the rows.
MaskAt(mask, n, i, j) == At3(mask, IF mask.shape[1] = 1 THEN 0 ELSE n, i, j)

Rows(t) == 0..(t.shape[1] - 1)
QPos(t) == 0..(t.shape[2] - 1)
KPos(t) == 0..(t.shape[3] - 1)

\* A weight of at most this many units of 1/WeightFx is "approximately 0".
ZeroTol == WeightFx \div 1000

\* The scaled scores before the mask is applied.
RawScores == SdpaScores(sdpa.q, sdpa.k, None, sdpa.d_k)

\* The softmax has run and its result is still in sdpa.attn.
AtSoftmax == sdpa.pc = "softmax" /\ sdpa.attn.ok

\* Row (n, i) has an unmasked key whose score is far enough above the fill
\* value for exp(fill - score) to underflow.
HasLiveKey(n, i) ==
    \E j \in KPos(sdpa.attn) :
        /\ ~MaskAt(sdpa.mask, n, i, j)
        /\ At3(RawScores, n, i, j) >= ScoreDen * MaskFillValue + Len(ExpTable)

\* C5 (as claimed): every masked entry has weight approximately 0 after the
\* softmax, whatever its raw score and however many entries of its row are
\* masked, the fully masked row included.
C5_MaskedWeightZero ==
    (AtSoftmax /\ sdpa.mask # None) =>
        \A n \in Rows(sdpa.attn), i \in QPos(sdpa.attn), j \in KPos(sdpa.attn) :
            MaskAt(sdpa.mask, n, i, j) => At3(sdpa.attn, n, i, j) <= ZeroTol

\* C5 (amended): a masked entry has weight approximately 0 after the softmax,
\* whatever its own raw score, provided its row has an unmasked key whose
\* score is well above the fill value -1e9.
C5_MaskedWeightZeroIfLiveKey ==
    (AtSoftmax /\ sdpa.mask # None) =>
        \A n \in Rows(sdpa.attn), i \in QPos(sdpa.attn), j \in KPos(sdpa.attn) :
            (MaskAt(sdpa.mask, n, i, j) /\ HasLiveKey(n, i))
                => At3(sdpa.attn, n, i, j) <= ZeroTol

\* C5 witness: a masked entry whose raw score is the largest of its row, in a
\* row that also has a live unmasked key.
C5_Witness ==
    /\ AtSoftmax /\ sdpa.mask # None
    /\ \E n \in Rows(sdpa.attn), i \in QPos(sdpa.attn), j \in KPos(sdpa.attn) :
         /\ MaskAt(sdpa.mask, n, i, j) /\ HasLiveKey(n, i)
         /\ \A c \in KPos(sdpa.attn) :
              c # j => At3(RawScores, n, i, c) < At3(RawScores, n, i, j)

RowSum(t, n, i) == SumTo(LAMBDA c : At3(t, n, i, c), t.shape[3])

\* C7: before dropout, the softmax weights of every (row, query position) sum
\* to 1 along the key axis (within the rounding of one unit per key), with or
\* without a mask.
C7_WeightsSumToOne ==
    AtSoftmax =>
        \A n \in Rows(sdpa.attn), i \in QPos(sdpa.attn) :
            Abs(RowSum(sdpa.attn, n, i) - WeightFx) <= sdpa.attn.shape[3]

\* C7 witness: a masked call with several keys and queries whose weights are
\* spread over more than one key.
C7_Witness ==
    /\ AtSoftmax /\ sdpa.mask # None
    /\ sdpa.attn.shape[2] > 1 /\ sdpa.attn.shape[3] > 1
    /\ \E n \in Rows(sdpa.attn), i \in QPos(sdpa.attn), j \in KPos(sdpa.attn) :
         /\ At3(sdpa.attn, n, i, j) > ZeroTol
         /\ At3(sdpa.attn, n, i, j) < WeightFx - ZeroTol

---------------------------------------------------------------------------
(* Properties of MultiHeadAttention (checked under SpecMha).               *)

\* The projections have been split into heads without error.
HeadsSplit ==
    /\ mha.pc \in {"split", "attended", "returned"}
    /\ mha.h.q.ok /\ mha.h.k.ok /\ mha.h.v.ok

\* Row h * B + b of the head-expanded tensor `heads` holds, at (l, j), feature
\* h * d + j of batch element b of the projection `proj` at position l.
SplitConsistent(proj, heads, n_head, d) ==
    /\ heads.shape = <<n_head * proj.shape[1], proj.shape[2], d>>
    /\ \A b \in 0..(proj.shape[1] - 1), h \in 0..(n_head - 1),
          l \in 0..(proj.shape[2] - 1), j \in 0..(d - 1) :
         At3(heads, h * proj.shape[1] + b, l, j) = At3(proj, b, l, h * d + j)

\* C8: the head split puts projected feature h*d_k + j (h*d_v + j) of batch
\* element b at position l into row h*B + b at (l, j); the recombined tensor
\* has shape (B, Lq, n_head*d_v) and its entry (b, l, h*d_v + j) is the
\* attention output of row h*B + b at (l, j).
C8_HeadIndexConsistent ==
    /\ HeadsSplit =>
         /\ SplitConsistent(mha.h.pq, mha.h.q, mha.cfg.n_head, mha.cfg.d_k)
         /\ SplitConsistent(mha.h.pk, mha.h.k, mha.cfg.n_head, mha.cfg.d_k)
         /\ SplitConsistent(mha.h.pv, mha.h.v, mha.cfg.n_head, mha.cfg.d_v)
    /\ (mha.pc = "returned" /\ mha.a.output.ok) =>
         LET B == mha.q.shape[1]
             Lq == mha.q.shape[2]
         IN /\ mha.merged.ok
            /\ mha.merged.shape = <<B, Lq, mha.cfg.n_head * mha.cfg.d_v>>
            /\ \A b \in 0..(B - 1), h \in 0..(mha.cfg.n_head - 1),
                  l \in 0..(Lq - 1), j \in 0..(mha.cfg.d_v - 1) :
                 At3(mha.merged, b, l, h * mha.cfg.d_v + j)
                     = At3(mha.a.output, h * B + b, l, j)

\* C8 witness: a returned call with several batch elements, heads, positions
\* and per-head features, whose projection is not constant.
C8_Witness ==
    /\ mha.pc = "returned" /\ mha.a.output.ok /\ mha.merged.ok
    /\ mha.q.shape[1] > 1 /\ mha.q.shape[2] > 1
    /\ mha.cfg.n_head > 1 /\ mha.cfg.d_k > 1
    /\ \E m, n \in 1..Len(mha.h.pq.data) : mha.h.pq.data[m] # mha.h.pq.data[n]

\* C4: a mask of shape (B, Lq, Lk) is repeated over the heads: the scores of
\* row h*B + b are masked with mask[b], and the call does not fail because of
\* the mask's shape.
C4_MaskRepeatedOverHeads ==
    (mha.pc \in {"attended", "raised"} /\ mha.mask # None
        /\ mha.mask.shape = <<mha.q.shape[1], mha.q.shape[2], mha.k.shape[2]>>) =>
        LET B == mha.q.shape[1]
            masked == SdpaScores(mha.h.q, mha.h.k, mha.mask, mha.cfg.d_k)
            raw == SdpaScores(mha.h.q, mha.h.k, None, mha.cfg.d_k)
        IN /\ mha.pc = "attended" /\ masked.ok
           /\ \A b \in 0..(B - 1), h \in 0..(mha.cfg.n_head - 1),
                 i \in 0..(mha.q.shape[2] - 1), j \in 0..(mha.k.shape[2] - 1) :
                At3(masked, h * B + b, i, j)
                    = IF At3(mha.mask, b, i, j) THEN ScoreDen * MaskFillValue
                      ELSE At3(raw, h * B + b, i, j)

\* C4 witness: a call with several batch elements and heads and a mask of B
\* rows has ended in an error of the attention.
C4_Witness ==
    /\ mha.pc = "raised" /\ mha.mask # None
    /\ mha.q.shape[1] > 1 /\ mha.cfg.n_head > 1
    /\ mha.mask.shape = <<mha.q.shape[1], mha.q.shape[2], mha.k.shape[2]>>
    /\ mha.h.q.ok /\ mha.h.k.ok /\ mha.h.v.ok

---------------------------------------------------------------------------
(* Properties of PositionwiseFeedForward (checked under SpecFfn).          *)

\* The feature vector of t at (b, l).
VecAt(t, b, l) == [c \in 0..(t.shape[3] - 1) |-> At3(t, b, l, c)]

\* Both calls have returned and no dropout was active.
ComparedNoDropout ==
    /\ ffn.pc = "compared"
    /\ ffn.cfg.dropout = 0 \/ ~ffn.training

\* C9: with dropout disabled, two inputs of one shape that agree at position
\* l of batch element b give outputs that agree at (b, l).
C9_PositionWise ==
    ComparedNoDropout =>
        /\ ffn.y.ok /\ ffn.y2.ok
        /\ \A b \in 0..(ffn.x.shape[1] - 1), l \in 0..(ffn.x.shape[2] - 1) :
             VecAt(ffn.x, b, l) = VecAt(ffn.x2, b, l)
                 => VecAt(ffn.y, b, l) = VecAt(ffn.y2, b, l)

\* C9 witness: the two inputs agree at one position and differ at another
\* position of the same batch element, where the outputs differ too.
C9_Witness ==
    /\ ComparedNoDropout /\ ffn.y.ok /\ ffn.y2.ok
    /\ \E b \in 0..(ffn.x.shape[1] - 1), l, m \in 0..(ffn.x.shape[2] - 1) :
         /\ VecAt(ffn.x, b, l) = VecAt(ffn.x2, b, l)
         /\ VecAt(ffn.x, b, m) # VecAt(ffn.x2, b, m)
         /\ VecAt(ffn.y, b, m) # VecAt(ffn.y2, b, m)

---------------------------------------------------------------------------
(* Properties of TransformerUnit (checked under Spec and SpecTwice).       *)

Constructed == unit.pc # "new"

\* Both calls of a unit built with dropout probability 0 have returned.
CalledTwiceDropoutZero ==
    unit.pc = "done" /\ unit.calls = 2 /\ unit.cfg.dropout = 0

\* C1: with dropout probability 0 given to the constructor, two forward calls
\* on the same input return the same output.
C1_RepeatedCallsAgree == CalledTwiceDropoutZero => unit.ret = unit.prev

\* C1 witness: both calls returned a tensor, and the tensors differ.
C1_Witness ==
    /\ CalledTwiceDropoutZero
    /\ unit.ret.output.ok /\ unit.prev.output.ok
    /\ unit.ret.output # unit.prev.output

\* The arguments forward was called with, as a layer receives them.
OriginalInput ==
    [query |-> unit.args.query, key |-> unit.args.key,
     value |-> unit.args.value, mask |-> unit.args.src_mask]

\* C2: every layer is invoked, in order, with forward's own (query, key,
\* value, mask); the value returned is the final norm of the last layer's
\* output, which is what a unit holding only the last layer returns.
C2_LastLayerDecides ==
    /\ (Constructed /\ Len(unit.invoked) > 0) =>
         /\ unit.invoked = [i \in 1..Len(unit.invoked) |-> unit.layer_stack[i]]
         /\ unit.layer_in = OriginalInput
    /\ unit.pc = "done" =>
         /\ unit.invoked = unit.layer_stack
         /\ unit.ret.output =
              FinalNorm(unit.cfg,
                        EncoderLayerForward(unit.cfg,
                                            unit.layer_stack[Len(unit.layer_stack)],
                                            unit.args.query, unit.args.key,
                                            unit.args.value, unit.args.src_mask,
                                            unit.training, unit.draws).enc_output)

\* C2 witness: a unit of two or more layers has returned a tensor, and its
\* first layer alone would have returned another.
C2_Witness ==
    /\ unit.pc = "done" /\ Len(unit.layer_stack) >= 2 /\ unit.ret.output.ok
    /\ unit.ret.output #
         FinalNorm(unit.cfg,
                   EncoderLayerForward(unit.cfg, unit.layer_stack[1],
                                       unit.args.query, unit.args.key,
                                       unit.args.value, unit.args.src_mask,
                                       unit.training, unit.draws).enc_output)

\* C3: called without a mask, MultiHeadAttention.forward returns a tensor of
\* the shape of its query, PositionwiseFeedForward.forward one of the shape
\* of its input and TransformerUnit.forward (of one or more layers) one of
\* the shape of its query, also when Lq differs from Lk; no call raises.
C3_ShapePreserved ==
    (Constructed /\ unit.args.src_mask = None /\ unit.cfg.n_layers > 0) =>
        /\ unit.pc # "raised"
        /\ unit.pc = "ffn" =>
             unit.slf_out.ok /\ unit.slf_out.shape = unit.layer_in.query.shape
        /\ (unit.pc = "loop" /\ unit.li > 0) =>
             /\ unit.enc_output.value.ok
             /\ unit.enc_output.value.shape = unit.slf_out.shape
        /\ unit.pc = "done" =>
             /\ unit.ret.output.ok
             /\ unit.ret.output.shape = unit.args.query.shape

\* C3 witness: a call without a mask has returned, with several batch
\* elements and heads and with Lq different from Lk.
C3_Witness ==
    /\ unit.pc = "done" /\ unit.args.src_mask = None
    /\ unit.args.query.shape[1] > 1 /\ unit.cfg.n_head > 1
    /\ unit.args.query.shape[2] # unit.args.key.shape[2]
    /\ unit.ret.output.shape = unit.args.query.shape

\* C6: forward returns the normalised output and, when return_attns is set,
\* the attention weights of the last layer with it; the output alone
\* otherwise.
C6_ReturnsAttnsOnRequest ==
    unit.pc = "done" =>
        /\ unit.ret.has_attn = unit.args.return_attns
        /\ unit.args.return_attns => unit.ret.attn = unit.enc_slf_attn

\* C6 witness: a call that asked for the attention weights has returned the
\* normalised output without them.
C6_Witness ==
    /\ unit.pc = "done" /\ unit.args.return_attns
    /\ unit.ret.output.ok /\ unit.enc_slf_attn.ok /\ unit.enc_slf_attn # None
    /\ ~unit.ret.has_attn

\* C10: a unit of no layers is constructed without error, and its forward
\* never returns: the loop body never runs, enc_output is unbound at the
\* final norm, and the call ends in an error.
C10_NoLayersRaises ==
    (Constructed /\ unit.cfg.n_layers = 0) =>
        /\ unit.layer_stack = <<>>
        /\ unit.pc \in {"idle", "loop", "raised"}
        /\ unit.invoked = <<>> /\ ~unit.enc_output.bound
        /\ unit.ret = NoReturn
        /\ unit.pc = "raised" => unit.error = "UnboundLocalError"

\* C10 witness: the forward of a unit of no layers has ended in the error.
C10_Witness ==
    /\ unit.pc = "raised" /\ unit.cfg.n_layers = 0
    /\ unit.error = "UnboundLocalError"
    /\ unit.args.query.ok /\ unit.li = 0

====
